---- MODULE Spec2Model ----
(***************************************************************************)
(* Model of cropper.py: the ROI store (load_rois / save_rois over          *)
(* rois.json) and the batch loop of process_images.                        *)
(***************************************************************************)
EXTENDS Integers, Sequences, FiniteSets, TLC

(***************************************************************************)
(* Strings are sequences of one-character strings, so that lower(),        *)
(* endswith(), splitext() and sorted() are computed on the characters.     *)
(***************************************************************************)

\* The characters in code point order ('.' < digits < upper < '_' < lower).
Alphabet ==
    << ".", "0", "1", "2", "3", "4", "5", "6", "7", "8", "9",
       "A", "B", "C", "D", "E", "F", "G", "H", "I", "J", "K", "L", "M",
       "N", "O", "P", "Q", "R", "S", "T", "U", "V", "W", "X", "Y", "Z",
       "_",
       "a", "b", "c", "d", "e", "f", "g", "h", "i", "j", "k", "l", "m",
       "n", "o", "p", "q", "r", "s", "t", "u", "v", "w", "x", "y", "z" >>

\* The place of each character in that order.
CharIndex ==
    [c \in {Alphabet[i] : i \in 1..Len(Alphabet)} |->
        CHOOSE i \in 1..Len(Alphabet) : Alphabet[i] = c]

Ord(c) == CharIndex[c]

\* str.lower() on one character: 'A'..'Z' map to 'a'..'z', the rest stay.
LowerChar(c) ==
    IF Ord(c) >= Ord("A") /\ Ord(c) <= Ord("Z")
    THEN Alphabet[Ord(c) - Ord("A") + Ord("a")]
    ELSE c

Lower(s) == [i \in 1..Len(s) |-> LowerChar(s[i])]

EndsWith(s, suffix) ==
    /\ Len(s) >= Len(suffix)
    /\ SubSeq(s, Len(s) - Len(suffix) + 1, Len(s)) = suffix

\* A filter that also lets '.png' through.
IsJpegNameOrPng(filename) ==
    \/ EndsWith(Lower(filename), <<".", "j", "p", "g">>)
    \/ EndsWith(Lower(filename), <<".", "j", "p", "e", "g">>)
    \/ EndsWith(Lower(filename), <<".", "p", "n", "g">>)

\* filename.lower().endswith(('.jpg', '.jpeg'))
IsJpegName(filename) ==
    \/ EndsWith(Lower(filename), <<".", "j", "p", "g">>)
    \/ EndsWith(Lower(filename), <<".", "j", "p", "e", "g">>)

\* Python's str < str: lexicographic on code points, a proper prefix first.
RECURSIVE StrLess(_, _)
StrLess(a, b) ==
    IF b = <<>> THEN FALSE
    ELSE IF a = <<>> THEN TRUE
    ELSE IF a[1] # b[1] THEN Ord(a[1]) < Ord(b[1])
    ELSE StrLess(Tail(a), Tail(b))

\* sorted(names): ascending, by repeatedly taking the least name.
RECURSIVE Sorted(_)
Sorted(names) ==
    IF names = {} THEN <<>>
    ELSE LET least == CHOOSE n \in names : \A m \in names \ {n} : StrLess(n, m)
         IN  <<least>> \o Sorted(names \ {least})

\* str(idx) for idx >= 0, in decimal digits.
RECURSIVE Str(_)
Str(n) ==
    IF n < 10 THEN <<Alphabet[Ord("0") + n]>>
    ELSE Str(n \div 10) \o <<Alphabet[Ord("0") + (n % 10)]>>

\* os.path.splitext: split at the last dot, unless only dots precede it.
LastDot(s) ==
    IF \E i \in 1..Len(s) : s[i] = "."
    THEN CHOOSE i \in 1..Len(s) : s[i] = "." /\ \A j \in (i+1)..Len(s) : s[j] # "."
    ELSE 0

SplitExt(s) ==
    LET d == LastDot(s)
    IN  IF d > 0 /\ \E j \in 1..(d-1) : s[j] # "."
        THEN [base |-> SubSeq(s, 1, d - 1), ext |-> SubSeq(s, d, Len(s))]
        ELSE [base |-> s, ext |-> <<>>]

\* f"{base}_{idx}{ext}"
OutName(filename, idx) ==
    SplitExt(filename).base \o <<"_">> \o Str(idx) \o SplitExt(filename).ext

(***************************************************************************)
(* JSON text: a sequence of tokens.  json.dump(obj, file, indent=2) and    *)
(* json.load(file) on documents made of objects, arrays and integers.      *)
(***************************************************************************)

Punct(c) == [k |-> c]
StrTok(s) == [k |-> "str", s |-> s]
IntTok(n) == [k |-> "int", n |-> n]
\* A newline followed by 2 * depth spaces.
Indent(depth) == [k |-> "ws", n |-> 2 * depth]

\* One ROI [x0, y0, x1, y1] (any array of integers) at nesting depth d.
RECURSIVE DumpInts(_, _)
DumpInts(ints, d) ==
    IF ints = <<>> THEN <<>>
    ELSE <<Indent(d), IntTok(ints[1])>>
         \o (IF Len(ints) > 1 THEN <<Punct(",")>> ELSE <<>>)
         \o DumpInts(Tail(ints), d)

DumpBox(box, d) ==
    IF box = <<>> THEN <<Punct("["), Punct("]")>>
    ELSE <<Punct("[")>> \o DumpInts(box, d + 1) \o <<Indent(d), Punct("]")>>

RECURSIVE DumpBoxes(_, _)
DumpBoxes(boxes, d) ==
    IF boxes = <<>> THEN <<>>
    ELSE <<Indent(d)>> \o DumpBox(boxes[1], d)
         \o (IF Len(boxes) > 1 THEN <<Punct(",")>> ELSE <<>>)
         \o DumpBoxes(Tail(boxes), d)

DumpList(boxes, d) ==
    IF boxes = <<>> THEN <<Punct("["), Punct("]")>>
    ELSE <<Punct("[")>> \o DumpBoxes(boxes, d + 1) \o <<Indent(d), Punct("]")>>

\* A dict is a sequence of [key, val] in insertion order.
RECURSIVE DumpItems(_)
DumpItems(items) ==
    IF items = <<>> THEN <<>>
    ELSE <<Indent(1), StrTok(items[1].key), Punct(":")>>
         \o DumpList(items[1].val, 1)
         \o (IF Len(items) > 1 THEN <<Punct(",")>> ELSE <<>>)
         \o DumpItems(Tail(items))

\* json.dump(rois_dict, file, indent=2)
JsonDump(dict) ==
    IF dict = <<>> THEN <<Punct("{"), Punct("}")>>
    ELSE <<Punct("{")>> \o DumpItems(dict) \o <<Indent(0), Punct("}")>>

\* id in rois_data
HasKey(dict, id) == \E i \in 1..Len(dict) : dict[i].key = id

\* rois_data[id]
Lookup(dict, id) == dict[CHOOSE i \in 1..Len(dict) : dict[i].key = id].val

\* rois_dict[id] = rois: an existing key keeps its place, a new one goes last.
DictSet(dict, id, rois) ==
    IF HasKey(dict, id)
    THEN [i \in 1..Len(dict) |->
            IF dict[i].key = id THEN [key |-> id, val |-> rois] ELSE dict[i]]
    ELSE Append(dict, [key |-> id, val |-> rois])

\* The scanner skips whitespace: the first index from i on that holds none.
RECURSIVE SkipWs(_, _)
SkipWs(toks, i) ==
    IF i <= Len(toks) /\ toks[i].k = "ws" THEN SkipWs(toks, i + 1) ELSE i

\* Parsers read toks from index i and return [val, pos], pos the index after
\* the value; they are applied to text written by JsonDump.
RECURSIVE ParseValue(_, _), ParseElems(_, _, _), ParseMembers(_, _, _)
ParseValue(toks, i) ==
    LET p == SkipWs(toks, i)
        q == SkipWs(toks, p + 1)
    IN  CASE toks[p].k = "int" -> [val |-> toks[p].n, pos |-> p + 1]
          [] toks[p].k = "[" ->
                IF toks[q].k = "]" THEN [val |-> <<>>, pos |-> q + 1]
                ELSE ParseElems(toks, q, <<>>)
          [] toks[p].k = "{" ->
                IF toks[q].k = "}" THEN [val |-> <<>>, pos |-> q + 1]
                ELSE ParseMembers(toks, q, <<>>)

\* value (',' value)* ']'
ParseElems(toks, i, acc) ==
    LET v == ParseValue(toks, i)
        p == SkipWs(toks, v.pos)
    IN  IF toks[p].k = ","
        THEN ParseElems(toks, p + 1, Append(acc, v.val))
        ELSE [val |-> Append(acc, v.val), pos |-> p + 1]

\* string ':' value (',' string ':' value)* '}'; a repeated key overwrites.
ParseMembers(toks, i, acc) ==
    LET k == SkipWs(toks, i)
        colon == SkipWs(toks, k + 1)
        v == ParseValue(toks, colon + 1)
        p == SkipWs(toks, v.pos)
    IN  IF toks[p].k = ","
        THEN ParseMembers(toks, p + 1, DictSet(acc, toks[k].s, v.val))
        ELSE [val |-> DictSet(acc, toks[k].s, v.val), pos |-> p + 1]

\* json.load(file)
JsonLoad(text) == ParseValue(text, 1).val

(***************************************************************************)
(* The ROI store: <dir>/rois.json, [exists, text].                         *)
(***************************************************************************)

NoFile == [exists |-> FALSE, text |-> <<>>]

load_rois(file, id) ==
    IF file.exists
    THEN LET rois_data == JsonLoad(file.text)
         IN  IF HasKey(rois_data, id) THEN Lookup(rois_data, id) ELSE <<>>
    ELSE <<>>

\* A save that starts from an empty document instead of the one on disk.
save_rois_fresh(file, id, rois) ==
    [exists |-> TRUE, text |-> JsonDump(DictSet(<<>>, id, rois))]

\* A save that keeps the entry already stored for the id.
save_rois_keep(file, id, rois) ==
    LET rois_dict == IF file.exists THEN JsonLoad(file.text) ELSE <<>>
    IN  [exists |-> TRUE,
         text |-> JsonDump(IF HasKey(rois_dict, id) THEN rois_dict
                           ELSE DictSet(rois_dict, id, rois))]

save_rois(file, id, rois) ==
    LET rois_dict == IF file.exists THEN JsonLoad(file.text) ELSE <<>>
    IN  [exists |-> TRUE, text |-> JsonDump(DictSet(rois_dict, id, rois))]

(***************************************************************************)
(* Display scale and the two coordinate mappings of process_images.        *)
(* A scale is the fraction num/den.  Python computes it, and every         *)
(* product and quotient with it, in binary floating point: a result whose  *)
(* exact value is a positive integer q may come out just below q, and      *)
(* int() then gives q - 1.  `low` is the set of operands for which it      *)
(* does; any other result truncates as the exact one does.                 *)
(***************************************************************************)

ScaleNum == 7
ScaleDen == 10

\* scale = screen_height / float(h) * 0.7 if h > screen_height else 0.7
DisplayScale(h, screen_height) ==
    IF h > screen_height
    THEN [num |-> screen_height * ScaleNum, den |-> h * ScaleDen]
    ELSE [num |-> ScaleNum, den |-> ScaleDen]

Trunc(n, d, isLow) ==
    IF n > 0 /\ n % d = 0 /\ isLow THEN (n \div d) - 1 ELSE n \div d

\* int(c * scale), multiplying where the code divides.
ToImageTimes(c, scale, low) == Trunc(c * scale.num, scale.den, c \in low)

\* int(c / scale)
ToImage(c, scale, low) == Trunc(c * scale.den, scale.num, c \in low)

\* int(c * scale)
ToDisplay(c, scale, low) == Trunc(c * scale.num, scale.den, c \in low)

\* The rectangle stored as (x, y, width, height) instead of two corners.
InverseMapSize(r, scale, low) ==
    << ToImage(r[1], scale, low), ToImage(r[2], scale, low),
       ToImage(r[3], scale, low), ToImage(r[4], scale, low) >>

\* Lines 135-140: the display rectangle (x, y, w_box, h_box) as image corners.
InverseMap(r, scale, low) ==
    << ToImage(r[1], scale, low), ToImage(r[2], scale, low),
       ToImage(r[1] + r[3], scale, low), ToImage(r[2] + r[4], scale, low) >>

\* Lines 107-110: a stored box as the display corners (sx0, sy0, sx1, sy1).
ForwardMap(box, scale, low) ==
    [i \in 1..4 |-> ToDisplay(box[i], scale, low)]

\* The operands whose exact result is a positive integer.
IntegralQuot(cs, scale) == {c \in cs : c > 0 /\ (c * scale.den) % scale.num = 0}
IntegralProd(cs, scale) == {c \in cs : c > 0 /\ (c * scale.num) % scale.den = 0}

(***************************************************************************)
(* Bounds and inputs.                                                      *)
(***************************************************************************)

\* The most ROIs rois.json holds in all (selections that would exceed it
\* are not offered).
MaxRois == 2

NameUpper == <<"B", ".", "J", "P", "G">>
NameLower == <<"a", ".", "j", "p", "e", "g">>
NameOther == <<"c", ".", "p", "n", "g">>
Names == {NameUpper, NameLower, NameOther}

\* What cv2.imread can give for a file, whose content the program learns
\* only then: None, or an array of h rows, w columns.
Unreadable == [ok |-> FALSE, h |-> 0, w |-> 0]
Image(h, w) == [ok |-> TRUE, h |-> h, w |-> w]
Shapes == {<<1, 3>>, <<2, 3>>, <<7, 4>>}
Images(name) ==
    IF IsJpegName(name)
    THEN {Unreadable} \cup {Image(s[1], s[2]) : s \in Shapes}
    ELSE {Image(2, 3)}

\* What os.listdir(arg) can give: some of the names for a directory.
ListingsOf(arg) == IF arg = "dir" THEN SUBSET Names ELSE {{}}

\* (screen_width, screen_height) as Tk reports them.
Screens == {[w |-> 6, h |-> 4]}

\* input_dir / output_dir: None, a path that is no directory, a directory.
DirArgs == {"None", "nodir", "dir"}

\* The rectangles (x, y, w, h) the user may draw, when they fit the window.
SelectionRects == {<<0, 0, 1, 1>>, <<1, 0, 0, 1>>, <<0, 1, 1, 1>>}

Fits(r, disp_w, disp_h) == r[1] + r[3] <= disp_w /\ r[2] + r[4] <= disp_h

\* The sequences of at most n elements of S.
SeqsUpTo(S, n) == UNION {[1..k -> S] : k \in 0..n}

\* The boxes and ROI lists the store API is called with.
Boxes == {<<0, 0, 1, 1>>, <<0, 2, 2, 5>>}
RoiLists == SeqsUpTo(Boxes, MaxRois)
Ids == {NameUpper, NameLower}

RECURSIVE SumLen(_)
SumLen(dict) ==
    IF dict = <<>> THEN 0 ELSE Len(dict[1].val) + SumLen(Tail(dict))

\* The number of ROIs in rois.json.
TotalRois(file) == IF file.exists THEN SumLen(JsonLoad(file.text)) ELSE 0

RECURSIVE Flatten(_)
\* The coordinates of a list of boxes.
Flatten(boxes) ==
    IF boxes = <<>> THEN {} ELSE {boxes[1][i] : i \in 1..4} \cup Flatten(Tail(boxes))

RECURSIVE Corners(_)
\* x, y, x + w, y + h of a list of rectangles.
Corners(rects) ==
    IF rects = <<>> THEN {}
    ELSE {rects[1][1], rects[1][2], rects[1][1] + rects[1][3], rects[1][2] + rects[1][4]}
         \cup Corners(Tail(rects))

(***************************************************************************)
(* State.                                                                  *)
(***************************************************************************)
VARIABLES
    rois_json,  \* <output_dir>/rois.json: [exists, text]
    pc,         \* process_images: "idle", "loop", "select", "done", "raised"
    err,        \* the exception process_images raised, or "none"
    args,       \* [input_dir, output_dir] of the call
    screen,     \* [w, h] read from Tk
    queue,      \* the names of sorted(os.listdir(input_dir)) still to visit
    cur,        \* the locals of the loop body for the file being handled
    crops,      \* the crop files written for the file being handled, in order
    call,       \* the last direct call of load_rois / save_rois
    saved,      \* the arguments of the last direct save_rois
    map         \* a rectangle taken through InverseMap and ForwardMap

vars == <<rois_json, pc, err, args, screen, queue, cur, crops, call, saved, map>>

NoArgs == [input_dir |-> "None", output_dir |-> "None"]
NoScreen == [w |-> 0, h |-> 0]
NoScale == [num |-> 0, den |-> 1]
NoCur ==
    [filename |-> <<>>, image |-> Unreadable, scale |-> NoScale,
     disp_w |-> 0, disp_h |-> 0, rois |-> <<>>, drawn |-> <<>>,
     pos_x |-> 0, pos_y |-> 0, open |-> FALSE, rois_new |-> <<>>]
NoCall == [op |-> "none", id |-> <<>>, rois |-> <<>>, ret |-> <<>>]
NoSaved == [id |-> <<>>, rois |-> <<>>, any |-> FALSE]
NoMap == [step |-> "none", scale |-> NoScale, rect |-> <<0, 0, 0, 0>>,
          box |-> <<0, 0, 0, 0>>, drawn |-> <<0, 0, 0, 0>>]

ProcessIdle ==
    /\ pc = "idle" /\ err = "none" /\ args = NoArgs /\ screen = NoScreen
    /\ queue = <<>> /\ cur = NoCur /\ crops = <<>>

(***************************************************************************)
(* Direct use of the store: load_rois and save_rois.                       *)
(***************************************************************************)

\* The stores the API is tried on: no file, or any document of the Ids.
RECURSIVE DictsOver(_)
DictsOver(ids) ==
    {<<>>} \cup
    UNION { { <<[key |-> id, val |-> L]>> \o d : d \in DictsOver(ids \ {id}) }
            : <<id, L>> \in ids \X RoiLists }

StoreFiles ==
    {NoFile} \cup {[exists |-> TRUE, text |-> JsonDump(d)] : d \in DictsOver(Ids)}

InitStore ==
    /\ rois_json \in StoreFiles
    /\ ProcessIdle
    /\ call = NoCall /\ saved = NoSaved /\ map = NoMap

SaveRois(id, rois) ==
    /\ rois_json' = save_rois(rois_json, id, rois)
    /\ call' = [op |-> "save", id |-> id, rois |-> rois, ret |-> <<>>]
    /\ saved' = [id |-> id, rois |-> rois, any |-> TRUE]
    /\ UNCHANGED <<pc, err, args, screen, queue, cur, crops, map>>

LoadRois(id) ==
    /\ call' = [op |-> "load", id |-> id, rois |-> <<>>,
                ret |-> load_rois(rois_json, id)]
    /\ UNCHANGED <<rois_json, saved, pc, err, args, screen, queue, cur, crops, map>>

NextStore ==
    \/ \E id \in Ids, rois \in RoiLists : SaveRois(id, rois)
    \/ \E id \in Ids : LoadRois(id)

SpecStore == InitStore /\ [][NextStore]_vars

(***************************************************************************)
(* The coordinate mappings on their own: a display rectangle is mapped to  *)
(* image corners as after a selection, and the corners are scaled back as  *)
(* when a later run draws the stored ROI.                                  *)
(***************************************************************************)

\* Image heights 1..MaxHeight and display coordinates 0..MaxCoord are tried.
MaxHeight == 8
MaxCoord == 3
ScreenHeights == {4, 5}

InitMap ==
    /\ rois_json = NoFile
    /\ ProcessIdle
    /\ call = NoCall /\ saved = NoSaved
    /\ \E h \in 1..MaxHeight, sh \in ScreenHeights, r \in (0..MaxCoord) \X (0..MaxCoord) \X (0..MaxCoord) \X (0..MaxCoord) :
         map = [NoMap EXCEPT !.step = "picked",
                             !.scale = DisplayScale(h, sh), !.rect = r]

MapBack ==
    /\ map.step = "picked"
    /\ \E low \in SUBSET IntegralQuot(Corners(<<map.rect>>), map.scale) :
         map' = [map EXCEPT !.step = "mapped",
                            !.box = InverseMap(map.rect, map.scale, low)]
    /\ UNCHANGED <<rois_json, pc, err, args, screen, queue, cur, crops, call, saved>>

Redraw ==
    /\ map.step = "mapped"
    /\ \E low \in SUBSET IntegralProd(Flatten(<<map.box>>), map.scale) :
         map' = [map EXCEPT !.step = "drawn",
                            !.drawn = ForwardMap(map.box, map.scale, low)]
    /\ UNCHANGED <<rois_json, pc, err, args, screen, queue, cur, crops, call, saved>>

NextMap == MapBack \/ Redraw

SpecMap == InitMap /\ [][NextMap]_vars

(***************************************************************************)
(* process_images(input_dir, output_dir).                                  *)
(***************************************************************************)

\* The states process_images can be started from: any store earlier runs
\* may have left, nothing in progress.
InitDocs ==
    {NoFile, save_rois(NoFile, NameLower, <<<<0, 0, 1, 1>>>>)}

Init ==
    /\ rois_json \in InitDocs
    /\ ProcessIdle
    /\ call = NoCall /\ saved = NoSaved /\ map = NoMap

\* A check that only looks for None.
IsMissingOnlyNone(arg) == arg = "None"

\* input_dir is None or not os.path.isdir(input_dir)
IsMissing(arg) == arg = "None" \/ arg # "dir"

\* Lines 59-71: validation, the screen probe, the sorted listing.
Call(input_dir, output_dir, listing, scr) ==
    /\ pc \in {"idle", "done", "raised"}
    /\ args' = [input_dir |-> input_dir, output_dir |-> output_dir]
    /\ cur' = NoCur /\ crops' = <<>>
    /\ IF IsMissing(input_dir) \/ IsMissing(output_dir)
       THEN /\ pc' = "raised" /\ err' = "ValueError"
            /\ screen' = NoScreen /\ queue' = <<>>
       ELSE /\ pc' = "loop" /\ err' = "none"
            /\ screen' = scr /\ queue' = Sorted(listing)
    /\ UNCHANGED <<rois_json, call, saved, map>>

\* Lines 74-76: a name that is no JPEG name is skipped.
SkipNonJpeg ==
    /\ pc = "loop" /\ queue # <<>>
    /\ ~IsJpegName(queue[1])
    /\ cur' = [NoCur EXCEPT !.filename = queue[1]]
    /\ queue' = Tail(queue)
    /\ crops' = <<>>
    /\ UNCHANGED <<rois_json, pc, err, args, screen, call, saved, map>>

\* Lines 81-84: cv2.imread returned None.
SkipUnreadable ==
    /\ pc = "loop" /\ queue # <<>>
    /\ IsJpegName(queue[1])
    /\ \E image \in Images(queue[1]) :
         /\ ~image.ok
         /\ cur' = [NoCur EXCEPT !.filename = queue[1], !.image = image]
    /\ queue' = Tail(queue)
    /\ crops' = <<>>
    /\ UNCHANGED <<rois_json, pc, err, args, screen, call, saved, map>>

\* cv2.resize(image, (disp_w, disp_h)) raises cv2.error for an empty size.
ResizeRaises(disp_w, disp_h) == disp_w <= 0 \/ disp_h <= 0

\* max(a, 0)
Max0(a) == IF a > 0 THEN a ELSE 0

\* Lines 89-122: scale, resize, the stored ROIs drawn, the window placed.
ShowImage ==
    /\ pc = "loop" /\ queue # <<>>
    /\ IsJpegName(queue[1])
    /\ \E image \in Images(queue[1]) :
       /\ image.ok
       /\ LET filename == queue[1]
              scale == DisplayScale(image.h, screen.h)
              rois == load_rois(rois_json, filename)
          IN
          \E low \in SUBSET IntegralProd({image.w, image.h} \cup Flatten(rois), scale) :
             LET disp_w == ToDisplay(image.w, scale, low)
                 disp_h == ToDisplay(image.h, scale, low)
                 locals == [NoCur EXCEPT !.filename = filename, !.image = image,
                                         !.scale = scale,
                                         !.disp_w = disp_w, !.disp_h = disp_h]
             IN  IF ResizeRaises(disp_w, disp_h)
                 THEN /\ pc' = "raised" /\ err' = "cv2.error"
                      /\ cur' = locals
                 ELSE /\ pc' = "select" /\ UNCHANGED err
                      /\ cur' = [locals EXCEPT
                                   !.rois = rois,
                                   !.drawn = [i \in 1..Len(rois) |->
                                                ForwardMap(rois[i], scale, low)],
                                   !.pos_x = Max0((screen.w - disp_w) \div 2),
                                   !.pos_y = Max0(((screen.h - disp_h) \div 2) \div 2),
                                   !.open = TRUE]
    /\ crops' = <<>>
    /\ UNCHANGED <<rois_json, args, screen, queue, call, saved, map>>

Min(a, b) == IF a < b THEN a ELSE b

\* image[y0:y1, x0:x1] for non-negative bounds: numpy clips them to the array.
Slice(image, box) ==
    LET top == Min(box[2], image.h)    bottom == Min(box[4], image.h)
        left == Min(box[1], image.w)   right == Min(box[3], image.w)
    IN  [top |-> top, left |-> left,
         rows |-> IF bottom > top THEN bottom - top ELSE 0,
         cols |-> IF right > left THEN right - left ELSE 0]

\* cv2.imwrite raises cv2.error for an empty array.
ImwriteRaises(crop) == crop.rows = 0 \/ crop.cols = 0

CropFile(filename, image, rois, idx) ==
    [name |-> OutName(filename, idx), of |-> filename,
     crop |-> Slice(image, rois[idx])]

\* Lines 148-153: the crops written, in order, up to the first that raises.
RECURSIVE Export(_, _, _, _)
Export(filename, image, rois, idx) ==
    IF idx > Len(rois) THEN [files |-> <<>>, raised |-> FALSE]
    ELSE IF ImwriteRaises(Slice(image, rois[idx]))
         THEN [files |-> <<>>, raised |-> TRUE]
         ELSE LET more == Export(filename, image, rois, idx + 1)
              IN  [files |-> <<CropFile(filename, image, rois, idx)>> \o more.files,
                   raised |-> more.raised]

\* The new rectangles put before the stored list.
MergeNewFirst(rois, rois_new, scale, low) ==
    [i \in 1..Len(rois_new) |-> InverseMap(rois_new[i], scale, low)] \o rois

\* Lines 135-140: rois.append([x0, y0, x1, y1]) for each new rectangle.
Merge(rois, rois_new, scale, low) ==
    rois \o [i \in 1..Len(rois_new) |-> InverseMap(rois_new[i], scale, low)]

\* A test that never finds the selection empty.
NoneSelectedNever(rois_new) == Len(rois_new) < 0

\* len(rois_new) == 0
NoneSelected(rois_new) == Len(rois_new) = 0

\* What cv2.selectROIs can return: rectangles inside the displayed image,
\* as many as the store still has room for.
Selections ==
    IF pc = "select"
    THEN SeqsUpTo({r \in SelectionRects : Fits(r, cur.disp_w, cur.disp_h)},
                  MaxRois - TotalRois(rois_json))
    ELSE {}

\* Lines 123-153: cv2.selectROIs returns rois_new; merge, save, export.
Select(rois_new) ==
    /\ pc = "select"
    /\ queue' = Tail(queue)
    /\ IF NoneSelected(rois_new)
       THEN /\ pc' = "loop"
            /\ cur' = [cur EXCEPT !.open = FALSE, !.rois_new = rois_new]
            /\ UNCHANGED <<rois_json, crops, err>>
       ELSE \E low \in SUBSET IntegralQuot(Corners(rois_new), cur.scale) :
              LET rois == Merge(cur.rois, rois_new, cur.scale, low)
                  out == Export(cur.filename, cur.image, rois, 1)
              IN  /\ cur' = [cur EXCEPT !.open = FALSE, !.rois_new = rois_new,
                                        !.rois = rois]
                  /\ rois_json' = save_rois(rois_json, cur.filename, rois)
                  /\ crops' = out.files
                  /\ IF out.raised
                     THEN pc' = "raised" /\ err' = "cv2.error"
                     ELSE pc' = "loop" /\ UNCHANGED err
    /\ UNCHANGED <<args, screen, call, saved, map>>

\* The loop is exhausted: process_images returns, its locals are gone.
Return ==
    /\ pc = "loop" /\ queue = <<>>
    /\ pc' = "done"
    /\ cur' = NoCur /\ crops' = <<>>
    /\ UNCHANGED <<rois_json, err, args, screen, queue, call, saved, map>>

Next ==
    \/ /\ pc \in {"idle", "done", "raised"}
       /\ \E input_dir \in DirArgs, output_dir \in DirArgs :
            \E listing \in ListingsOf(input_dir), scr \in Screens :
               Call(input_dir, output_dir, listing, scr)
    \/ SkipNonJpeg
    \/ SkipUnreadable
    \/ ShowImage
    \/ \E rois_new \in Selections : Select(rois_new)
    \/ Return

Spec == Init /\ [][Next]_vars

(***************************************************************************)
(* Properties.                                                             *)
(***************************************************************************)

IsPrefix(s, u) == Len(s) <= Len(u) /\ SubSeq(u, 1, Len(s)) = s

\* C1 (SpecStore).  After save_rois(dir, A, L), load_rois(dir, A) returns
\* exactly L, elements and order, whatever rois.json held before (or if
\* there was none), for as long as nothing else is saved.
SaveThenLoadReturnsSaved ==
    (call.op = "load" /\ saved.any /\ call.id = saved.id) => call.ret = saved.rois

\* A two-element list with distinct elements was saved over a document that
\* also holds another id, and read back.
SaveThenLoadWitness ==
    /\ call.op = "load" /\ saved.any /\ call.id = saved.id
    /\ Len(saved.rois) = 2 /\ saved.rois[1] # saved.rois[2]
    /\ \E B \in Ids \ {saved.id} : load_rois(rois_json, B) # <<>>

\* C2 (SpecStore).  save_rois(dir, A, L) leaves what load_rois(dir, B) returns
\* unchanged for every B other than A, the empty list of an absent B included.
SaveLeavesOthers ==
    [][\A B \in Ids :
          (call'.op = "save" /\ B # call'.id)
             => load_rois(rois_json', B) = load_rois(rois_json, B)]_vars

\* A save was made into a document that holds a non-empty list of another id.
SaveLeavesOthersWitness ==
    /\ call.op = "save"
    /\ \E B \in Ids \ {call.id} : Len(load_rois(rois_json, B)) = 2

\* C3 (Spec).  When cv2.selectROIs returns no rectangle, the store is left as
\* it was, no crop file is written for the image, nothing is raised and the
\* loop goes on with the next name.
EmptySelectionSkips ==
    [][(pc = "select" /\ cur'.rois_new = <<>>)
          => /\ rois_json' = rois_json
             /\ crops' = <<>>
             /\ err' = err
             /\ pc' = "loop"
             /\ queue' = Tail(queue)]_vars

\* An empty selection was returned for an image that has stored ROIs, with
\* another name still to visit.
EmptySelectionWitness ==
    /\ pc = "loop" /\ cur.image.ok /\ cur.disp_w > 0 /\ ~cur.open
    /\ cur.rois_new = <<>>
    /\ cur.rois # <<>> /\ load_rois(rois_json, cur.filename) = cur.rois
    /\ queue # <<>>

\* C4 (Spec).  A call whose input_dir or output_dir is None or no directory
\* raises ValueError with nothing listed, no window opened, no crop written
\* and rois.json as it was.
InvalidDirsFailFast ==
    [][(pc \in {"idle", "done", "raised"}
          /\ (args'.input_dir # "dir" \/ args'.output_dir # "dir"))
          => /\ pc' = "raised" /\ err' = "ValueError"
             /\ screen' = NoScreen
             /\ queue' = <<>>
             /\ cur' = NoCur
             /\ crops' = <<>>
             /\ rois_json' = rois_json]_vars

\* A call with a path that is no directory was refused while rois.json
\* holds ROIs.
InvalidDirsWitness ==
    /\ pc = "raised" /\ err = "ValueError"
    /\ args.input_dir = "nodir" /\ args.output_dir = "dir"
    /\ TotalRois(rois_json) > 0

\* The names of the model that end in .jpg or .jpeg, whatever the case.
JpegFileNames == {NameUpper, NameLower}

\* C5 (Spec).  A name that does not end in .jpg/.jpeg (any case), or a file
\* cv2.imread cannot decode, is passed over: nothing raised, no window, the
\* store and the crops untouched, and the loop goes on with the next name.
SkipsNonJpegAndUnreadable ==
    [][(pc = "loop" /\ queue # <<>>
          /\ (queue[1] \notin JpegFileNames \/ ~cur'.image.ok))
          => /\ pc' = "loop" /\ err' = err
             /\ cur'.filename = queue[1] /\ ~cur'.open
             /\ rois_json' = rois_json
             /\ crops' = <<>>
             /\ queue' = Tail(queue)]_vars

\* The upper-case JPEG name could not be decoded and was passed over, with
\* the two later names still to visit and ROIs in the store.
SkipsWitness ==
    /\ pc = "loop" /\ cur.filename = NameUpper /\ ~cur.image.ok
    /\ queue = <<NameLower, NameOther>>
    /\ TotalRois(rois_json) > 0

\* C6 (Spec).  Once both directories have passed validation process_images
\* never raises: the only exception is the ValueError of the validation.
CompletesAfterValidation ==
    pc = "raised" => (args.input_dir # "dir" \/ args.output_dir # "dir")

\* The display edges x, y, x + w, y + h of a rectangle.
Edges(r) == <<r[1], r[2], r[1] + r[3], r[2] + r[4]>>

Abs(n) == IF n < 0 THEN 0 - n ELSE n

\* C7 (SpecMap).  A display rectangle mapped to image corners by int(c / s)
\* and scaled back by int(c * s) has each of its four edges within 1 pixel
\* of where it was, for every scale process_images computes.
RoundTripWithinOnePixel ==
    map.step = "drawn"
        => \A i \in 1..4 : Abs(map.drawn[i] - Edges(map.rect)[i]) <= 1

\* A rectangle on an image taller than the screen came back with its right
\* edge one pixel to the left.
RoundTripWitness ==
    /\ map.step = "drawn"
    /\ map.scale.den # ScaleDen
    /\ map.rect[3] > 0
    /\ map.drawn[3] = Edges(map.rect)[3] - 1

\* C8 (Spec).  No step shortens or rewrites a stored list (the list of every
\* name is a prefix of its list after the step), and a selection of at least
\* one rectangle saves the stored list followed by the inverse-mapped new
\* rectangles in selection order, duplicates included.
AppendOnly ==
    [][/\ \/ rois_json' = rois_json
          \/ \A id \in Names :
                IsPrefix(load_rois(rois_json, id), load_rois(rois_json', id))
       /\ (pc = "select" /\ cur'.rois_new # <<>>)
            => \E low \in SUBSET IntegralQuot(Corners(cur'.rois_new), cur.scale) :
                 load_rois(rois_json', cur.filename)
                    = load_rois(rois_json, cur.filename)
                        \o [i \in 1..Len(cur'.rois_new) |->
                              InverseMap(cur'.rois_new[i], cur.scale, low)]]_vars

\* One rectangle was added to an image that had one different ROI stored.
AppendOnlyWitness ==
    /\ pc = "loop" /\ Len(cur.rois_new) = 1
    /\ Len(cur.rois) = 2 /\ cur.rois[1] # cur.rois[2]
    /\ load_rois(rois_json, cur.filename) = cur.rois

\* C9 (Spec).  After a selection of at least one rectangle the crop files
\* written for the image are exactly <base>_1<ext> .. <base>_n<ext>, n the
\* length of the list just saved, file i holding image[y0:y1, x0:x1] of its
\* i-th ROI.  Stated for rectangles of positive width and height, as
\* cv2.selectROIs returns them, and lists whose ROIs all have x1 > x0 and
\* y1 > y0, as such rectangles give.
CropsCoverStoredList ==
    LET stored == load_rois(rois_json, cur.filename)
    IN  (/\ pc \in {"loop", "raised"}
         /\ cur.rois_new # <<>>
         /\ \A i \in 1..Len(cur.rois_new) :
               cur.rois_new[i][3] > 0 /\ cur.rois_new[i][4] > 0
         /\ \A i \in 1..Len(stored) :
               stored[i][3] > stored[i][1] /\ stored[i][4] > stored[i][2])
            => /\ Len(crops) = Len(stored)
               /\ \A i \in 1..Len(crops) :
                     /\ crops[i].name = OutName(cur.filename, i)
                     /\ crops[i].crop = Slice(cur.image, stored[i])

\* Every list of the document on disk.
StoredLists ==
    IF rois_json.exists
    THEN LET d == JsonLoad(rois_json.text) IN {d[i].val : i \in 1..Len(d)}
    ELSE {}

\* C10 (Spec).  Every ROI in the store is four integers [x0, y0, x1, y1]
\* with x1 >= x0 and y1 >= y0, whatever rectangles (w >= 0, h >= 0) were
\* selected in whatever runs.
WellFormedStore ==
    \A L \in StoredLists : \A i \in 1..Len(L) :
        /\ Len(L[i]) = 4
        /\ \A j \in 1..4 : L[i][j] \in Int
        /\ L[i][3] >= L[i][1]
        /\ L[i][4] >= L[i][2]

\* A rectangle of width 0 drawn at x > 0 is in the store, next to one of
\* positive width and height.
WellFormedWitness ==
    \E L \in StoredLists :
        /\ \E i \in 1..Len(L) : L[i][1] > 0 /\ L[i][3] = L[i][1]
        /\ \E i \in 1..Len(L) : L[i][3] > L[i][1] /\ L[i][4] > L[i][2]

====
